---- MODULE Spec2Model ----
(***************************************************************************)
(* Replay reader: the byte cursor (src/src/reader.rs) and the chunk        *)
(* parser (src/src/parser.rs) as a state machine.                          *)
(*                                                                         *)
(* Representation.                                                         *)
(*  - A byte is a number in 0..255; a buffer and a Rust String are         *)
(*    sequences of bytes (a String is its UTF-8 encoding).                  *)
(*  - A fixed-width read returns the raw little-endian bytes it read;      *)
(*    u16_of, u32_of and i32_of give their numeric value.                   *)
(*  - A usize (the cursor offset) is written as the signed reading of its  *)
(*    64 bits: a value n < 2^63 is n, a value 2^64 - k is -k; a u32 that   *)
(*    is 2^31 or more is written the same way.  The wrapped                *)
(*    sum of a small usize and a sign-extended i32 is then their integer   *)
(*    sum, and it overflowed exactly when the i32 is negative and the sum  *)
(*    is not.                                                              *)
(*  - A panic is the terminal state pc = "failed" with err naming it.      *)
(*  - overflow_checks is the build profile: TRUE panics on arithmetic      *)
(*    overflow (debug), FALSE wraps (release).                             *)
(*                                                                         *)
(* Specifications.                                                         *)
(*  - Spec: Parser::parse on the files of Files, one step per call or      *)
(*    loop turn.                                                           *)
(*  - FairSpec: the same steps on the files of ScanFiles, with the turns   *)
(*    of the dispatch loop taken whenever they can be.                     *)
(*  - SpecReader: a Reader on its own, its reads called in any order.      *)
(***************************************************************************)
EXTENDS Integers, Sequences, FiniteSets, TLC

\* Option: None, or Some(x); an error name, or NoErr
None == <<>>

Some(x) == <<x>>

NoErr == "none"

I32_MIN == -2147483647 - 1

\* Sequences over S of length 0..n
SeqsUpTo(S, n) == UNION {[1..k -> S] : k \in 0..n}

RECURSIVE Flatten(_)
Flatten(ss) == IF ss = <<>> THEN <<>> ELSE Head(ss) \o Flatten(Tail(ss))

\* n copies of byte b
Rep(b, n) == [i \in 1..n |-> b]

(***************************************************************************)
(* Little-endian values (byteorder::LittleEndian)                          *)
(***************************************************************************)
u16_of(b) == b[1] + 256 * b[2]

i32_of(b) ==
  b[1] + 256 * b[2] + 65536 * b[3]
    + 16777216 * (IF b[4] >= 128 THEN b[4] - 256 ELSE b[4])

\* a u32 is written like a usize: 2^32 - k, for k up to 2^31, is -k
u32_of(b) == i32_of(b)

\* x >= n, x > n and i < x for a u32 x and a small number n, i
u32_ge(x, n) == x < 0 \/ x >= n

u32_gt(x, n) == x < 0 \/ x > n

u32_lt(i, x) == x < 0 \/ i < x

(***************************************************************************)
(* Reader: slices and fixed-width reads.  Every read gives                 *)
(* [ok, v, off, err]: whether it returned, its value, the offset after it, *)
(* and the panic when it did not return.                                   *)
(***************************************************************************)
\* &self.buffer[a..b] is in range
slice_ok(buf, a, b) == a >= 0 /\ a <= b /\ b <= Len(buf)

Fail(off, e) == [ok |-> FALSE, v |-> <<>>, off |-> off, err |-> e]

Ok(v, off) == [ok |-> TRUE, v |-> v, off |-> off, err |-> NoErr]

\* Reader::skip
skip(off, byte_count) == off + byte_count

\* A read that slices `need` bytes at the offset, decodes the first `width`
\* of them and skips `width`.
read_fixed(buf, off, need, width) ==
  IF slice_ok(buf, off, off + need)
    THEN Ok(SubSeq(buf, off + 1, off + width), skip(off, width))
    ELSE Fail(off, "Bounds")

read_u16(buf, off) == read_fixed(buf, off, 2, 2)

read_u32(buf, off) == read_fixed(buf, off, 4, 4)

read_u64(buf, off) == read_fixed(buf, off, 8, 8)

read_i16(buf, off) == read_fixed(buf, off, 2, 2)

read_i32(buf, off) == read_fixed(buf, off, 4, 4)

read_i64(buf, off) == read_fixed(buf, off, 8, 8)

\* slices offset..offset + 8, decodes 4 bytes, skips 4
read_f32(buf, off) == read_fixed(buf, off, 8, 4)

read_byte(buf, off) == read_fixed(buf, off, 1, 1)

\* byte_count is a u32 widened to usize
read_bytes(buf, off, byte_count) ==
  IF off >= 0 /\ off <= Len(buf) /\ byte_count >= 0 /\ byte_count <= Len(buf) - off
    THEN Ok(SubSeq(buf, off + 1, off + byte_count), off + byte_count)
    ELSE Fail(off, "Bounds")

\* true only for the value 1
read_bool(buf, off) ==
  LET r == read_i32(buf, off)
  IN  IF r.ok THEN Ok(i32_of(r.v) = 1, r.off) ELSE r

(***************************************************************************)
(* Text: hexadecimal rendering, UTF-8 validation, UTF-16 decoding          *)
(***************************************************************************)
HexUpper(n) == IF n < 10 THEN 48 + n ELSE 55 + n

\* format!("{:02X?}", byte)
format_02X(byte) == <<HexUpper(byte \div 16), HexUpper(byte % 16)>>

\* str::to_lowercase on ASCII text
to_lowercase(s) == [i \in 1..Len(s) |-> IF s[i] \in 65..90 THEN s[i] + 32 ELSE s[i]]

\* Reader::read_id
read_id(buf, off) ==
  LET r == read_bytes(buf, off, 16)
  IN  IF r.ok
        THEN Ok(to_lowercase(Flatten([i \in 1..16 |-> format_02X(r.v[i])])), r.off)
        ELSE r

IsCont(b, i, lo, hi) == i <= Len(b) /\ b[i] >= lo /\ b[i] <= hi

\* String::from_utf8 accepts exactly the well-formed UTF-8 byte sequences
RECURSIVE utf8_valid(_, _)
utf8_valid(b, i) ==
  IF i > Len(b) THEN TRUE
  ELSE LET c == b[i]
       IN  IF c < 128 THEN utf8_valid(b, i + 1)
           ELSE IF c >= 194 /\ c <= 223
             THEN IsCont(b, i + 1, 128, 191) /\ utf8_valid(b, i + 2)
           ELSE IF c >= 224 /\ c <= 239
             THEN /\ IsCont(b, i + 1, IF c = 224 THEN 160 ELSE 128,
                                      IF c = 237 THEN 159 ELSE 191)
                  /\ IsCont(b, i + 2, 128, 191)
                  /\ utf8_valid(b, i + 3)
           ELSE IF c >= 240 /\ c <= 244
             THEN /\ IsCont(b, i + 1, IF c = 240 THEN 144 ELSE 128,
                                      IF c = 244 THEN 143 ELSE 191)
                  /\ IsCont(b, i + 2, 128, 191)
                  /\ IsCont(b, i + 3, 128, 191)
                  /\ utf8_valid(b, i + 4)
           ELSE FALSE

\* the UTF-8 encoding of one code point
utf8_encode(cp) ==
  IF cp < 128 THEN <<cp>>
  ELSE IF cp < 2048 THEN <<192 + (cp \div 64), 128 + (cp % 64)>>
  ELSE IF cp < 65536
    THEN <<224 + (cp \div 4096), 128 + ((cp \div 64) % 64), 128 + (cp % 64)>>
  ELSE <<240 + (cp \div 262144), 128 + ((cp \div 4096) % 64),
         128 + ((cp \div 64) % 64), 128 + (cp % 64)>>

IsHighSurrogate(u) == u >= 55296 /\ u <= 56319

IsLowSurrogate(u) == u >= 56320 /\ u <= 57343

\* String::from_utf16: [ok, v]; an unpaired surrogate is an error
RECURSIVE from_utf16(_, _)
from_utf16(u, i) ==
  IF i > Len(u) THEN [ok |-> TRUE, v |-> <<>>]
  ELSE IF IsHighSurrogate(u[i])
    THEN IF i + 1 <= Len(u) /\ IsLowSurrogate(u[i + 1])
           THEN LET rest == from_utf16(u, i + 2)
                    cp == 65536 + (u[i] - 55296) * 1024 + (u[i + 1] - 56320)
                IN  [ok |-> rest.ok, v |-> utf8_encode(cp) \o rest.v]
           ELSE [ok |-> FALSE, v |-> <<>>]
  ELSE IF IsLowSurrogate(u[i]) THEN [ok |-> FALSE, v |-> <<>>]
  ELSE LET rest == from_utf16(u, i + 1)
       IN  [ok |-> rest.ok, v |-> utf8_encode(u[i]) \o rest.v]

\* Vec::pop: drops the last element, if any
pop(s) == IF s = <<>> THEN s ELSE SubSeq(s, 1, Len(s) - 1)

\* `string_length * -1` in i32: [ok, v]
negate_i32(n, checks) ==
  IF n = I32_MIN
    THEN IF checks THEN [ok |-> FALSE, v |-> 0] ELSE [ok |-> TRUE, v |-> I32_MIN]
    ELSE [ok |-> TRUE, v |-> -n]

\* the reads of a sequence: each goes on from the one before, and a read that
\* panicked is handed on as it is
next_u32(buf, prev) == IF prev.ok THEN read_u32(buf, prev.off) ELSE prev

next_i32(buf, prev) == IF prev.ok THEN read_i32(buf, prev.off) ELSE prev

next_byte(buf, prev) == IF prev.ok THEN read_byte(buf, prev.off) ELSE prev

next_bool(buf, prev) == IF prev.ok THEN read_bool(buf, prev.off) ELSE prev

\* the `for _ in 0..count` loop of read_u16 pushes
read_units(buf, off, count) ==
  IF count <= 0 THEN Ok(<<>>, off)
  ELSE IF off >= 0 /\ off <= Len(buf) /\ count <= (Len(buf) - off) \div 2
    THEN Ok([i \in 1..count |-> u16_of(SubSeq(buf, off + 2 * i - 1, off + 2 * i))],
            off + 2 * count)
    ELSE Fail(off, "Bounds")

\* the units read, popped and decoded
utf16_string(units, text) ==
  IF ~units.ok THEN units
  ELSE IF ~text.ok THEN Fail(units.off, "Utf16")
  ELSE Ok(text.v, units.off)

utf16_units(units) == utf16_string(units, from_utf16(pop(units.v), 1))

\* the branch of read_string for a negative length
wide_string(buf, off, count) ==
  IF ~count.ok THEN Fail(off, "Overflow")
  ELSE utf16_units(read_units(buf, off, count.v))

\* the bytes read, popped and decoded
utf8_string(bytes, byte_vec) ==
  IF ~bytes.ok THEN bytes
  ELSE IF ~utf8_valid(byte_vec, 1) THEN Fail(bytes.off, "Utf8")
  ELSE Ok(byte_vec, bytes.off)

utf8_bytes(bytes) == utf8_string(bytes, pop(bytes.v))

\* read_string after its length was read
string_of_length(buf, off, string_length, checks) ==
  IF string_length = 0 THEN Ok(<<>>, off)
  ELSE IF string_length < 0
    THEN wide_string(buf, off, negate_i32(string_length, checks))
    ELSE utf8_bytes(read_bytes(buf, off, string_length))

string_after(buf, len, checks) ==
  IF ~len.ok THEN len ELSE string_of_length(buf, len.off, i32_of(len.v), checks)

\* Reader::read_string
read_string(buf, off, checks) == string_after(buf, read_i32(buf, off), checks)

next_string(buf, prev, checks) ==
  IF prev.ok THEN read_string(buf, prev.off, checks) ELSE prev

\* an item put before the items read after it
cons(item, rest) == IF rest.ok THEN Ok(<<item>> \o rest.v, rest.off) ELSE rest

\* Reader::read_string_vec: the strings after the count, read one by one
RECURSIVE read_strings(_, _, _, _, _)
string_then(buf, s, i, n, checks) ==
  IF ~s.ok THEN s ELSE cons(s.v, read_strings(buf, s.off, i + 1, n, checks))

read_strings(buf, off, i, n, checks) ==
  IF ~u32_lt(i, n) THEN Ok(<<>>, off)
  ELSE string_then(buf, read_string(buf, off, checks), i, n, checks)

strings_after(buf, array_length, checks) ==
  IF ~array_length.ok THEN array_length
  ELSE read_strings(buf, array_length.off, 0, u32_of(array_length.v), checks)

read_string_vec(buf, off, checks) == strings_after(buf, read_u32(buf, off), checks)

\* Reader::read_string_u32_tuple_vec: the (string, u32) pairs after the count
RECURSIVE read_pairs(_, _, _, _, _)
pair_then(buf, s, t, i, n, checks) ==
  IF ~t.ok THEN t
  ELSE cons(<<s.v, u32_of(t.v)>>, read_pairs(buf, t.off, i + 1, n, checks))

pair_of(buf, s, i, n, checks) == pair_then(buf, s, next_u32(buf, s), i, n, checks)

read_pairs(buf, off, i, n, checks) ==
  IF ~u32_lt(i, n) THEN Ok(<<>>, off)
  ELSE pair_of(buf, read_string(buf, off, checks), i, n, checks)

pairs_after(buf, array_length, checks) ==
  IF ~array_length.ok THEN array_length
  ELSE read_pairs(buf, array_length.off, 0, u32_of(array_length.v), checks)

read_string_u32_tuple_vec(buf, off, checks) ==
  pairs_after(buf, read_u32(buf, off), checks)

(***************************************************************************)
(* Reader::decrypt_buffer.  The AES-256 block permutation of aes_soft is   *)
(* stood for by a keyed bijection on 16-byte blocks: the parser depends on *)
(* the cipher only through decryption undoing encryption under the same    *)
(* 32-byte key.  ECB and ZeroPadding are those of block_modes.             *)
(***************************************************************************)
KEY_LEN == 32

BLOCK_LEN == 16

\* a block decrypted under the first half of the key alone
decrypt_block_half_key(key, block) ==
  [i \in 1..BLOCK_LEN |-> (block[i] + 256 - key[i]) % 256]

\* one block under the block cipher
decrypt_block(key, block) ==
  [i \in 1..BLOCK_LEN |-> (block[i] + 512 - key[i] - key[i + BLOCK_LEN]) % 256]

encrypt_block(key, block) ==
  [i \in 1..BLOCK_LEN |-> (block[i] + key[i] + key[i + BLOCK_LEN]) % 256]

\* ECB: every block on its own
block_of(data, b) == SubSeq(data, (b - 1) * BLOCK_LEN + 1, b * BLOCK_LEN)

ecb_decrypt(key, data) ==
  Flatten([b \in 1..(Len(data) \div BLOCK_LEN) |-> decrypt_block(key, block_of(data, b))])

ecb_encrypt(key, data) ==
  Flatten([b \in 1..(Len(data) \div BLOCK_LEN) |-> encrypt_block(key, block_of(data, b))])

\* ZeroPadding::unpad: drops the trailing zero bytes, but never the first byte
RECURSIVE unpad(_)
unpad(data) ==
  IF Len(data) > 1 /\ data[Len(data)] = 0 THEN unpad(pop(data)) ELSE data

\* [ok, v, err]: the buffer of the new Reader (its offset is 0, its key None)
decrypt_buffer(encryption_key, data) ==
  IF encryption_key = None THEN [ok |-> FALSE, v |-> <<>>, err |-> "NoKey"]
  ELSE IF Len(encryption_key[1]) # KEY_LEN \/ Len(data) % BLOCK_LEN # 0 \/ data = <<>>
    THEN [ok |-> FALSE, v |-> <<>>, err |-> "Cipher"]
  ELSE [ok |-> TRUE, v |-> unpad(ecb_decrypt(encryption_key[1], data)), err |-> NoErr]

(***************************************************************************)
(* 64-bit arithmetic of the capture timestamp, on little-endian bytes      *)
(***************************************************************************)
\* 621355968000000000
EPOCH_TICKS == <<0, 128, 181, 247, 245, 127, 159, 8>>

TICKS_DIVISOR == 100000

\* a - b on bytes i..Len(a) with a borrow coming in: the bytes, then the borrow out
RECURSIVE sub_bytes(_, _, _, _)
sub_bytes(a, b, i, borrow) ==
  IF i > Len(a) THEN <<borrow>>
  ELSE <<(a[i] - b[i] - borrow) % 256>>
         \o sub_bytes(a, b, i + 1, IF a[i] - b[i] - borrow < 0 THEN 1 ELSE 0)

\* wrapping a - b and whether it overflowed
difference(r) == [v |-> SubSeq(r, 1, 8), overflow |-> r[9] = 1]

sub_u64(a, b) == difference(sub_bytes(a, b, 1, 0))

\* a / d from byte i down to the lowest, rem carried down: the quotient's bytes
RECURSIVE div_bytes(_, _, _, _)
div_bytes(a, d, i, rem) ==
  IF i = 0 THEN <<>>
  ELSE div_bytes(a, d, i - 1, (rem * 256 + a[i]) % d) \o <<(rem * 256 + a[i]) \div d>>

div_u64(a, d) == div_bytes(a, d, 8, 0)

\* `as u32`: the low 32 bits
as_u32(a) == SubSeq(a, 1, 4)

\* (diff / 100000) as u32, unless the subtraction panicked: [ok, v]
quotient_of(diff, checks) ==
  IF diff.overflow /\ checks THEN [ok |-> FALSE, v |-> <<>>]
  ELSE [ok |-> TRUE, v |-> as_u32(div_u64(diff.v, TICKS_DIVISOR))]

\* ((ticks - 621355968000000000) / 100000) as u32: [ok, v]
capture_timestamp(ticks, checks) == quotient_of(sub_u64(ticks, EPOCH_TICKS), checks)

(***************************************************************************)
(* Parser::parse_meta                                                      *)
(***************************************************************************)
IsWhitespace(c) == c \in {9, 10, 11, 12, 13, 32}

\* str::trim_end on text whose trailing characters are ASCII
RECURSIVE trim_end(_)
trim_end(s) ==
  IF s # <<>> /\ IsWhitespace(s[Len(s)]) THEN trim_end(pop(s)) ELSE s

Panic(off, e) == [ok |-> FALSE, off |-> off, err |-> e]

\* the timestamp of the ticks read: its value holds the ticks beside it
stamp_of(ticks, stamp) ==
  IF stamp.ok THEN Ok([timestamp |-> Some(u32_of(stamp.v)), ticks |-> Some(ticks.v)], ticks.off)
  ELSE Fail(ticks.off, "Overflow")

ticks_then(ticks, checks) ==
  IF ~ticks.ok THEN ticks ELSE stamp_of(ticks, capture_timestamp(ticks.v, checks))

\* `if file_version >= 3 { timestamp = Some(..) }`
next_timestamp(buf, prev, file_version, checks) ==
  IF ~prev.ok THEN prev
  ELSE IF u32_ge(u32_of(file_version.v), 3) THEN ticks_then(read_u64(buf, prev.off), checks)
  ELSE Ok([timestamp |-> None, ticks |-> None], prev.off)

\* a flag that files from version `since` on hold, and that is false before
next_flag(buf, prev, file_version, since) ==
  IF ~prev.ok THEN prev
  ELSE IF u32_ge(u32_of(file_version.v), since) THEN read_bool(buf, prev.off)
  ELSE Ok(FALSE, prev.off)

some(r) == IF r.ok THEN Ok(Some(r.v), r.off) ELSE r

key_of_length(buf, key_length) ==
  IF ~key_length.ok THEN key_length
  ELSE some(read_bytes(buf, key_length.off, u32_of(key_length.v)))

\* `if is_encrypted { self.reader.encryption_key = Some(..) }`
next_key(buf, is_encrypted, key0) ==
  IF ~is_encrypted.ok THEN is_encrypted
  ELSE IF is_encrypted.v THEN key_of_length(buf, read_u32(buf, is_encrypted.off))
  ELSE Ok(key0, is_encrypted.off)

\* what parse_meta leaves, once its last read is known to have returned
meta_read(last_read, m) ==
  IF ~last_read.ok THEN Panic(last_read.off, last_read.err)
  ELSE [ok |-> TRUE, off |-> last_read.off, err |-> NoErr, key |-> last_read.v,
        ticks |-> m.stamp.ticks,
        meta |-> [magic |-> u32_of(m.magic),
                  file_version |-> u32_of(m.file_version),
                  length_in_ms |-> u32_of(m.length_in_ms),
                  network_version |-> u32_of(m.network_version),
                  changelist |-> u32_of(m.changelist),
                  name |-> trim_end(m.name),
                  is_live |-> m.is_live,
                  timestamp |-> m.stamp.timestamp,
                  is_compressed |-> m.is_compressed,
                  is_encrypted |-> m.is_encrypted]]

\* [ok, off, err, meta, key, ticks]; ticks are the raw bytes of the timestamp field
parse_meta(buf, off, key0, checks) ==
  LET magic == read_u32(buf, off)
      file_version == next_u32(buf, magic)
      length_in_ms == next_u32(buf, file_version)
      network_version == next_u32(buf, length_in_ms)
      changelist == next_u32(buf, network_version)
      name == next_string(buf, changelist, checks)
      is_live == next_bool(buf, name)
      timestamp == next_timestamp(buf, is_live, file_version, checks)
      is_compressed == next_flag(buf, timestamp, file_version, 2)
      is_encrypted == next_flag(buf, is_compressed, file_version, 6)
      key == next_key(buf, is_encrypted, key0)
  IN  meta_read(key, [magic |-> magic.v, file_version |-> file_version.v,
                      length_in_ms |-> length_in_ms.v,
                      network_version |-> network_version.v,
                      changelist |-> changelist.v, name |-> name.v,
                      is_live |-> is_live.v, stamp |-> timestamp.v,
                      is_compressed |-> is_compressed.v,
                      is_encrypted |-> is_encrypted.v])

(***************************************************************************)
(* Parser::parse_header                                                    *)
(***************************************************************************)
\* "++Fortnite+Release-"
BRANCH_PREFIX ==
  <<43, 43, 70, 111, 114, 116, 110, 105, 116, 101, 43, 82, 101, 108, 101, 97, 115, 101, 45>>

IsDigit(c) == c \in 48..57

\* the end of the run of digits that starts at i (i - 1 when there is none)
RECURSIVE digits_end(_, _)
digits_end(s, i) ==
  IF i <= Len(s) /\ IsDigit(s[i]) THEN digits_end(s, i + 1) ELSE i - 1

\* the pattern matches at i with its first run of digits ending at m
matches_to(s, i, n, m) ==
  /\ i + n - 1 <= Len(s)
  /\ SubSeq(s, i, i + n - 1) = BRANCH_PREFIX
  /\ m >= i + n
  /\ m + 1 <= Len(s)
  /\ s[m + 1] = 46

\* the pattern \+\+Fortnite\+Release\-(\d+)\.(\d*) matches at position i
matches_at(s, i) ==
  matches_to(s, i, Len(BRANCH_PREFIX), digits_end(s, i + Len(BRANCH_PREFIX)))

\* str::parse::<u32> of a run of digits: [ok, v]
RECURSIVE parse_u32(_, _, _)
parse_u32(s, i, acc) ==
  IF i > Len(s) THEN [ok |-> s # <<>>, v |-> acc]
  ELSE IF acc > 429496729 \/ (acc = 429496729 /\ s[i] - 48 > 5)
    THEN [ok |-> FALSE, v |-> 0]
    ELSE parse_u32(s, i + 1, acc * 10 + (s[i] - 48))

version_of(major, minor) ==
  IF ~major.ok \/ ~minor.ok THEN [ok |-> FALSE, major |-> 0, minor |-> 0]
  ELSE [ok |-> TRUE, major |-> major.v, minor |-> minor.v]

\* the two groups of the match whose first run of digits is s[from..m]
captures_to(s, from, m) ==
  version_of(parse_u32(SubSeq(s, from, m), 1, 0),
             parse_u32(SubSeq(s, m + 2, digits_end(s, m + 2)), 1, 0))

captures_at(s, i) ==
  captures_to(s, i + Len(BRANCH_PREFIX), digits_end(s, i + Len(BRANCH_PREFIX)))

first_of(starts) == CHOOSE k \in starts : \A j \in starts : k <= j

leftmost(s, starts) ==
  IF starts = {} THEN [ok |-> FALSE, major |-> 0, minor |-> 0]
  ELSE captures_at(s, first_of(starts))

\* Regex::captures on the branch, then the two parses: [ok, major, minor]
branch_version(branch) ==
  leftmost(branch, {i \in 1..Len(branch) : matches_at(branch, i)})

\* `if network_version > 12 { id = Some(self.reader.read_id()) }`
next_id(buf, prev, network_version) ==
  IF ~prev.ok THEN prev
  ELSE IF u32_gt(u32_of(network_version.v), 12) THEN some(read_id(buf, prev.off))
  ELSE Ok(None, prev.off)

\* the patch, after the four bytes skipped
next_patch(buf, prev) == IF prev.ok THEN read_u16(buf, skip(prev.off, 4)) ELSE prev

next_pairs(buf, prev, checks) ==
  IF prev.ok THEN read_string_u32_tuple_vec(buf, prev.off, checks) ELSE prev

next_strings(buf, prev, checks) ==
  IF prev.ok THEN read_string_vec(buf, prev.off, checks) ELSE prev

\* what parse_header returns, once its last read is known to have returned
header_read(last_read, version_data, h) ==
  IF ~last_read.ok THEN Panic(last_read.off, last_read.err)
  ELSE IF ~version_data.ok THEN Panic(last_read.off, "Branch")
  ELSE [ok |-> TRUE, off |-> last_read.off, err |-> NoErr,
        header |-> [magic |-> u32_of(h.magic),
                    network_version |-> u32_of(h.network_version),
                    network_checksum |-> u32_of(h.network_checksum),
                    engine_network_version |-> u32_of(h.engine_network_version),
                    game_network_protocol |-> u32_of(h.game_network_protocol),
                    id |-> h.id,
                    version |-> [branch |-> h.branch,
                                 patch |-> u16_of(h.patch),
                                 changelist |-> u32_of(h.changelist),
                                 major |-> version_data.major,
                                 minor |-> version_data.minor],
                    level_names_and_times |-> h.level_names_and_times,
                    flags |-> u32_of(h.flags),
                    game_specific_data |-> last_read.v]]

header_fields(last_read, h) ==
  header_read(last_read,
              IF last_read.ok THEN branch_version(h.branch)
              ELSE [ok |-> FALSE, major |-> 0, minor |-> 0],
              h)

\* [ok, off, err, header]
parse_header(buf, off, checks) ==
  LET magic == read_u32(buf, off)
      network_version == next_u32(buf, magic)
      network_checksum == next_u32(buf, network_version)
      engine_network_version == next_u32(buf, network_checksum)
      game_network_protocol == next_u32(buf, engine_network_version)
      id == next_id(buf, game_network_protocol, network_version)
      patch == next_patch(buf, id)
      changelist == next_u32(buf, patch)
      branch == next_string(buf, changelist, checks)
      level_names_and_times == next_pairs(buf, branch, checks)
      flags == next_u32(buf, level_names_and_times)
      game_specific_data == next_strings(buf, flags, checks)
  IN  header_fields(game_specific_data,
                    [magic |-> magic.v, network_version |-> network_version.v,
                     network_checksum |-> network_checksum.v,
                     engine_network_version |-> engine_network_version.v,
                     game_network_protocol |-> game_network_protocol.v,
                     id |-> id.v, patch |-> patch.v, changelist |-> changelist.v,
                     branch |-> branch.v,
                     level_names_and_times |-> level_names_and_times.v,
                     flags |-> flags.v])

(***************************************************************************)
(* Event payloads: eliminations and statistics, read from the decrypted    *)
(* Reader `data` from its offset 0                                         *)
(***************************************************************************)
BOT_NAME == <<66, 111, 116>>

named_bot(name) ==
  IF name.ok THEN Ok([name |-> name.v, id |-> <<>>, is_bot |-> TRUE], name.off) ELSE name

human(id) ==
  IF id.ok THEN Ok([name |-> <<>>, id |-> id.v, is_bot |-> FALSE], id.off) ELSE id

\* the match on the player type
player_of_type(data, player_type, checks) ==
  IF ~player_type.ok THEN player_type
  ELSE IF player_type.v[1] = 3
    THEN Ok([name |-> BOT_NAME, id |-> <<>>, is_bot |-> TRUE], player_type.off)
  ELSE IF player_type.v[1] = 16
    THEN named_bot(read_string(data, player_type.off, checks))
  ELSE human(read_id(data, skip(player_type.off, 1)))

\* Parser::parse_player: [ok, v, off, err]
parse_player(data, off, checks) == player_of_type(data, read_byte(data, off), checks)

\* the player of the older layouts: its id is a plain string
plain_player(data, off, checks) == human(read_string(data, off, checks))

\* a layout choice whose first test asks for a major above 9
elimination_layout_above(engine_network_version, major, minor) ==
  IF u32_ge(engine_network_version, 11) /\ major > 9 THEN [skip |-> 85, rich |-> TRUE]
  ELSE IF major <= 4 /\ minor < 2 THEN [skip |-> 12, rich |-> FALSE]
  ELSE IF major = 4 /\ minor <= 2 THEN [skip |-> 40, rich |-> FALSE]
  ELSE [skip |-> 45, rich |-> FALSE]

\* the branch of parse_elimination taken for a header: the bytes skipped and
\* whether the two players are read by parse_player
elimination_layout(engine_network_version, major, minor) ==
  IF u32_ge(engine_network_version, 11) /\ major >= 9 THEN [skip |-> 85, rich |-> TRUE]
  ELSE IF major <= 4 /\ minor < 2 THEN [skip |-> 12, rich |-> FALSE]
  ELSE IF major = 4 /\ minor <= 2 THEN [skip |-> 40, rich |-> FALSE]
  ELSE [skip |-> 45, rich |-> FALSE]

player_at(data, off, rich, checks) ==
  IF rich THEN parse_player(data, off, checks) ELSE plain_player(data, off, checks)

next_player(data, prev, rich, checks) ==
  IF prev.ok THEN player_at(data, prev.off, rich, checks) ELSE prev

\* the Elimination pushed, once the last read is known to have returned
elimination_read(knocked, e) ==
  IF ~knocked.ok THEN [ok |-> FALSE, err |-> knocked.err, v |-> <<>>]
  ELSE [ok |-> TRUE, err |-> NoErr,
        v |-> [eliminated |-> e.eliminated,
               eliminator |-> e.eliminator,
               gun_type |-> format_02X(e.gun_type[1]),
               is_knocked |-> knocked.v,
               timestamp |-> e.timestamp]]

elimination_with(data, layout, timestamp, checks) ==
  LET eliminated == player_at(data, skip(0, layout.skip), layout.rich, checks)
      eliminator == next_player(data, eliminated, layout.rich, checks)
      gun_type == next_byte(data, eliminator)
      knocked == next_bool(data, gun_type)
  IN  elimination_read(knocked, [eliminated |-> eliminated.v, eliminator |-> eliminator.v,
                                 gun_type |-> gun_type.v, timestamp |-> timestamp])

\* Parser::parse_elimination: [ok, err, v], v the Elimination it pushes
parse_elimination(data, hdr, timestamp, checks) ==
  elimination_with(data,
                   elimination_layout(hdr.engine_network_version,
                                      hdr.version.major, hdr.version.minor),
                   timestamp, checks)

team_stats_read(total_players, placement) ==
  IF ~total_players.ok THEN [ok |-> FALSE, err |-> total_players.err, v |-> <<>>]
  ELSE [ok |-> TRUE, err |-> NoErr,
        v |-> [placement |-> u32_of(placement),
               total_players |-> u32_of(total_players.v)]]

\* Parser::parse_team_match_stats: [ok, err, v]
parse_team_match_stats(data) ==
  LET placement == read_u32(data, skip(0, 4))
      total_players == next_u32(data, placement)
  IN  team_stats_read(total_players, placement.v)

\* the ten counters after the accuracy, read one by one
RECURSIVE read_counters(_, _, _)
counter_then(data, c, n) ==
  IF ~c.ok THEN c ELSE cons(u32_of(c.v), read_counters(data, c.off, n - 1))

read_counters(data, off, n) ==
  IF n = 0 THEN Ok(<<>>, off) ELSE counter_then(data, read_u32(data, off), n)

next_counters(data, prev, n) == IF prev.ok THEN read_counters(data, prev.off, n) ELSE prev

match_stats_read(c, accuracy) ==
  IF ~c.ok THEN [ok |-> FALSE, err |-> c.err, v |-> <<>>]
  ELSE [ok |-> TRUE, err |-> NoErr,
        v |-> [accuracy |-> accuracy,
               assists |-> c.v[1],
               eliminations |-> c.v[2],
               weapon_damage |-> c.v[3],
               other_damage |-> c.v[4],
               revives |-> c.v[5],
               damage_taken |-> c.v[6],
               damage_to_structures |-> c.v[7],
               materials_gathered |-> c.v[8],
               materials_used |-> c.v[9],
               total_traveled |-> c.v[10]]]

\* Parser::parse_match_stats: [ok, err, v]; the accuracy is its four raw bytes
parse_match_stats(data) ==
  LET accuracy == read_f32(data, skip(0, 4))
      counters == next_counters(data, accuracy, 10)
  IN  match_stats_read(counters, accuracy.v)

(***************************************************************************)
(* Parser::parse_event                                                     *)
(***************************************************************************)
\* "playerElim"
PLAYER_ELIM == <<112, 108, 97, 121, 101, 114, 69, 108, 105, 109>>

\* "AthenaMatchStats"
ATHENA_MATCH_STATS ==
  <<65, 116, 104, 101, 110, 97, 77, 97, 116, 99, 104, 83, 116, 97, 116, 115>>

\* "AthenaMatchTeamStats"
ATHENA_MATCH_TEAM_STATS ==
  <<65, 116, 104, 101, 110, 97, 77, 97, 116, 99, 104, 84, 101, 97, 109, 83, 116, 97, 116, 115>>

\* "PlayerStateEncryptionKey"
PLAYER_STATE_ENCRYPTION_KEY ==
  <<80, 108, 97, 121, 101, 114, 83, 116, 97, 116, 101, 69, 110, 99, 114, 121, 112, 116,
    105, 111, 110, 75, 101, 121>>

\* the length, after the four bytes skipped
next_length(buf, prev) == IF prev.ok THEN read_u32(buf, skip(prev.off, 4)) ELSE prev

next_payload(buf, length) ==
  IF length.ok THEN read_bytes(buf, length.off, u32_of(length.v)) ELSE length

fields_read(encrypted_buffer, f) ==
  IF ~encrypted_buffer.ok THEN Panic(encrypted_buffer.off, encrypted_buffer.err)
  ELSE [ok |-> TRUE, off |-> encrypted_buffer.off, err |-> NoErr,
        group |-> f.group, metadata |-> f.metadata,
        start_time |-> u32_of(f.start_time),
        encrypted_buffer |-> encrypted_buffer.v]

\* the fields of an event chunk, up to and with its payload:
\* [ok, off, err, group, metadata, start_time, encrypted_buffer]
event_fields(buf, off, checks) ==
  LET id == read_string(buf, off, checks)
      group == next_string(buf, id, checks)
      metadata == next_string(buf, group, checks)
      start_time == next_u32(buf, metadata)
      length == next_length(buf, start_time)
      encrypted_buffer == next_payload(buf, length)
  IN  fields_read(encrypted_buffer, [group |-> group.v, metadata |-> metadata.v,
                                     start_time |-> start_time.v])

\* which handler the decrypted payload goes to
event_kind(group, metadata) ==
  IF group = PLAYER_ELIM THEN "elimination"
  ELSE IF metadata = ATHENA_MATCH_STATS THEN "match_stats"
  ELSE IF metadata = ATHENA_MATCH_TEAM_STATS THEN "team_match_stats"
  ELSE "ignored"

\* the handler of a kind on the decrypted payload: [ok, err, v]
handle(kind, data, hdr, start_time, checks) ==
  CASE kind = "elimination" -> parse_elimination(data, hdr, start_time, checks)
    [] kind = "match_stats" -> parse_match_stats(data)
    [] kind = "team_match_stats" -> parse_team_match_stats(data)
    [] OTHER -> [ok |-> TRUE, err |-> NoErr, v |-> <<>>]

\* what an event chunk came to: [ok, off, err, kind, v, fields, start_time], the
\* offset the cursor was left at, the handler the payload went to and what it
\* decoded, whether the fields before the decryption were read, and the
\* start-time field
event_result(ok, off, e, kind, v, fields, start_time) ==
  [ok |-> ok, off |-> off, err |-> e, kind |-> kind, v |-> v, fields |-> fields,
   start_time |-> start_time]

handled(f, kind, r) == event_result(r.ok, f.off, r.err, kind, r.v, TRUE, f.start_time)

decrypted(f, buffer_reader, kind, hdr, checks) ==
  IF ~buffer_reader.ok
    THEN event_result(FALSE, f.off, buffer_reader.err, kind, <<>>, TRUE, f.start_time)
    ELSE handled(f, kind, handle(kind, buffer_reader.v, hdr, f.start_time, checks))

\* a parse_event that decrypts only the payloads it has a handler for
event_of_lazy(f, key, hdr, checks) ==
  IF ~f.ok THEN event_result(FALSE, f.off, f.err, "none", <<>>, FALSE, 0)
  ELSE IF event_kind(f.group, f.metadata) = "ignored"
    THEN event_result(TRUE, f.off, NoErr, "ignored", <<>>, TRUE, f.start_time)
  ELSE decrypted(f, decrypt_buffer(key, f.encrypted_buffer),
                 event_kind(f.group, f.metadata), hdr, checks)

\* the payload is decrypted before the match on group and metadata
event_of(f, key, hdr, checks) ==
  IF ~f.ok THEN event_result(FALSE, f.off, f.err, "none", <<>>, FALSE, 0)
  ELSE decrypted(f, decrypt_buffer(key, f.encrypted_buffer),
                 event_kind(f.group, f.metadata), hdr, checks)

parse_event(buf, off, key, hdr, checks) ==
  event_of(event_fields(buf, off, checks), key, hdr, checks)

(***************************************************************************)
(* Parser::parse_chunks: one chunk                                         *)
(***************************************************************************)
\* `buffer.len() > offset`, both usize
more_bytes(buf, off) == off >= 0 /\ Len(buf) > off

\* start_offset + chunk_size as usize: [ok, v]
chunk_end(start_offset, chunk_size, checks) ==
  IF chunk_size < 0 /\ start_offset + chunk_size >= 0 /\ checks
    THEN [ok |-> FALSE, v |-> 0]
    ELSE [ok |-> TRUE, v |-> start_offset + chunk_size]

words_read(chunk_size, chunk_type) ==
  IF ~chunk_size.ok THEN Panic(chunk_size.off, chunk_size.err)
  ELSE [ok |-> TRUE, off |-> chunk_size.off, err |-> NoErr,
        chunk_type |-> u32_of(chunk_type.v), chunk_size |-> i32_of(chunk_size.v)]

words_after(buf, chunk_type) == words_read(next_i32(buf, chunk_type), chunk_type)

\* the type and size words of a chunk: [ok, off, err, chunk_type, chunk_size]
chunk_words(buf, off) == words_after(buf, read_u32(buf, off))

\* an insert at the front of the vector
push_front(vec, x) == <<x>> \o vec

\* Vec::push
push(vec, x) == Append(vec, x)

\* Option::is_none
is_none(opt) == opt = None

(***************************************************************************)
(* State: the Reader (buffer, offset, encryption_key), the Parser (meta,   *)
(* header, match_stats, team_match_stats, eliminations), where the run is  *)
(* (pc, err), the build profile, and `last`, a record of the operation     *)
(* that was just carried out (its name and its arguments).                 *)
(***************************************************************************)
VARIABLES buffer, offset, encryption_key, meta, header, match_stats,
          team_match_stats, eliminations, pc, err, overflow_checks, last

vars == <<buffer, offset, encryption_key, meta, header, match_stats,
          team_match_stats, eliminations, pc, err, overflow_checks, last>>

(***************************************************************************)
(* Parser::parse, step by step: parse_meta, then each turn of the two      *)
(* loops of parse_chunks and the check between them.                       *)
(***************************************************************************)
MetaParsed(r) ==
  IF r.ok
    THEN /\ meta' = Some(r.meta)
         /\ encryption_key' = r.key
         /\ offset' = r.off
         /\ pc' = "find_header"
         /\ err' = NoErr
         /\ last' = [op |-> "parse_meta", ticks |-> r.ticks]
    ELSE /\ pc' = "failed"
         /\ err' = r.err
         /\ last' = [op |-> "parse_meta", ticks |-> None]
         /\ UNCHANGED <<meta, encryption_key, offset>>

ParseMeta ==
  /\ pc = "parse_meta"
  /\ MetaParsed(parse_meta(buffer, offset, encryption_key, overflow_checks))
  /\ UNCHANGED <<buffer, header, match_stats, team_match_stats, eliminations,
                 overflow_checks>>

\* the cursor moved to the end the size word gives, or the panic of the sum
MovedTo(e) ==
  IF ~e.ok THEN pc' = "failed" /\ err' = "Overflow" /\ UNCHANGED offset
  ELSE offset' = e.v /\ UNCHANGED <<pc, err>>

\* a header chunk in the first loop: the header is set, then the cursor moved
HeaderParsed(h, e) ==
  IF ~h.ok THEN pc' = "failed" /\ err' = h.err /\ UNCHANGED <<header, offset>>
  ELSE header' = Some(h.header) /\ MovedTo(e)

HeaderSought(w) ==
  IF ~w.ok THEN pc' = "failed" /\ err' = w.err /\ UNCHANGED <<header, offset>>
  ELSE IF w.chunk_type # 0 THEN offset' = w.off /\ UNCHANGED <<header, pc, err>>
  ELSE HeaderParsed(parse_header(buffer, w.off, overflow_checks),
                    chunk_end(w.off, w.chunk_size, overflow_checks))

\* one turn of `while self.header.is_none() && buffer.len() > offset`
FindHeader ==
  /\ pc = "find_header"
  /\ is_none(header) /\ more_bytes(buffer, offset)
  /\ HeaderSought(chunk_words(buffer, offset))
  /\ last' = [op |-> "find_header", words |-> chunk_words(buffer, offset).ok]
  /\ UNCHANGED <<buffer, encryption_key, meta, match_stats, team_match_stats,
                 eliminations, overflow_checks>>

\* the first loop left with no check of the header
CheckHeaderSkipped ==
  /\ pc = "find_header"
  /\ ~(is_none(header) /\ more_bytes(buffer, offset))
  /\ pc' = "dispatch"
  /\ last' = [op |-> "check_header"]
  /\ UNCHANGED <<buffer, offset, encryption_key, meta, header, match_stats,
                 team_match_stats, eliminations, err, overflow_checks>>

\* the first loop is left: `if self.header.is_none() { panic!(..) }`
CheckHeader ==
  /\ pc = "find_header"
  /\ ~(is_none(header) /\ more_bytes(buffer, offset))
  /\ IF is_none(header)
       THEN pc' = "failed" /\ err' = "HeaderMissing"
       ELSE pc' = "dispatch" /\ err' = err
  /\ last' = [op |-> "check_header"]
  /\ UNCHANGED <<buffer, offset, encryption_key, meta, header, match_stats,
                 team_match_stats, eliminations, overflow_checks>>

\* what the handler of a chunk leaves in the Parser
Handled(ev) ==
  /\ IF ev.ok /\ ev.kind = "elimination"
       THEN eliminations' = push(eliminations, ev.v)
       ELSE UNCHANGED eliminations
  /\ IF ev.ok /\ ev.kind = "match_stats"
       THEN match_stats' = Some(ev.v)
       ELSE UNCHANGED match_stats
  /\ IF ev.ok /\ ev.kind = "team_match_stats"
       THEN team_match_stats' = Some(ev.v)
       ELSE UNCHANGED team_match_stats

\* a reposition that counts the size from where the handler stopped
RepositionedFromHandler(w, ev) ==
  IF ~ev.ok THEN pc' = "failed" /\ err' = ev.err /\ UNCHANGED offset
  ELSE MovedTo(chunk_end(ev.off, w.chunk_size, overflow_checks))

\* the cursor after the handler: `self.reader.offset = start_offset + chunk_size`
Repositioned(w, ev) ==
  IF ~ev.ok THEN pc' = "failed" /\ err' = ev.err /\ UNCHANGED offset
  ELSE MovedTo(chunk_end(w.off, w.chunk_size, overflow_checks))

ChunkHandled(w, ev) ==
  /\ Handled(ev)
  /\ Repositioned(w, ev)
  /\ last' = [op |-> "dispatch", words |-> TRUE, chunk_type |-> w.chunk_type,
              chunk_size |-> w.chunk_size, start_offset |-> w.off,
              handler_end |-> ev.off, kind |-> ev.kind, fields |-> ev.fields,
              start_time |-> ev.start_time, handled |-> ev.ok]

\* `match chunk_type { 3 => self.parse_event(), _ => {} }`
handler(w) ==
  IF w.chunk_type = 3
    THEN parse_event(buffer, w.off, encryption_key, header[1], overflow_checks)
    ELSE event_result(TRUE, w.off, NoErr, "none", <<>>, FALSE, 0)

Dispatched(w) ==
  IF ~w.ok
    THEN /\ pc' = "failed" /\ err' = w.err
         /\ last' = [op |-> "dispatch", words |-> FALSE]
         /\ UNCHANGED <<offset, eliminations, match_stats, team_match_stats>>
    ELSE ChunkHandled(w, handler(w))

\* one turn of the second loop, `while buffer.len() > offset`
Dispatch ==
  /\ pc = "dispatch"
  /\ more_bytes(buffer, offset)
  /\ Dispatched(chunk_words(buffer, offset))
  /\ UNCHANGED <<buffer, encryption_key, meta, header, overflow_checks>>

\* the second loop is left: parse returns
Finish ==
  /\ pc = "dispatch"
  /\ ~more_bytes(buffer, offset)
  /\ pc' = "done"
  /\ last' = [op |-> "finish"]
  /\ UNCHANGED <<buffer, offset, encryption_key, meta, header, match_stats,
                 team_match_stats, eliminations, err, overflow_checks>>

Next == ParseMeta \/ FindHeader \/ CheckHeader \/ Dispatch \/ Finish

(***************************************************************************)
(* Input files.  The encoders write the container format; the buffers of   *)
(* Init are built from them.                                               *)
(***************************************************************************)
MaxTail == 2

enc_u16(n) == <<n % 256, (n \div 256) % 256>>

\* a 32-bit word, signed or unsigned
enc_32(n) == <<n % 256, (n \div 256) % 256, (n \div 65536) % 256, (n \div 16777216) % 256>>

\* a string the way the files store text: length with the null, bytes, null
enc_string(s) == IF s = <<>> THEN enc_32(0) ELSE enc_32(Len(s) + 1) \o s \o <<0>>

enc_chunk(chunk_type, chunk_size, payload) ==
  enc_32(chunk_type) \o enc_32(chunk_size) \o payload

TEST_KEY == [i \in 1..32 |-> (7 * i + 3) % 256]

\* "Match  " with trailing blanks
MATCH_NAME == <<77, 97, 116, 99, 104, 32, 32>>

\* 621355968000500007: 5 after the division
TICKS_SMALL == <<39, 33, 189, 247, 245, 127, 159, 8>>

\* 637134336000000000 (2020-01-01): 157783680000 after the division
TICKS_2020 == <<0, 0, 124, 139, 77, 142, 215, 8>>

\* 621355967999999999: one tick before the epoch
TICKS_EARLY == <<255, 127, 181, 247, 245, 127, 159, 8>>

\* m = [file_version, ticks, is_encrypted]
enc_meta(m) ==
  enc_32(480436863) \o enc_32(m.file_version) \o enc_32(90000) \o enc_32(2)
    \o enc_32(7095426) \o enc_string(MATCH_NAME) \o enc_32(0)
    \o (IF m.file_version >= 3 THEN m.ticks ELSE <<>>)
    \o (IF m.file_version >= 2 THEN enc_32(0) ELSE <<>>)
    \o (IF m.file_version >= 6 THEN enc_32(m.is_encrypted) ELSE <<>>)
    \o (IF m.file_version >= 6 /\ m.is_encrypted = 1
          THEN enc_32(Len(TEST_KEY)) \o TEST_KEY ELSE <<>>)

Metas ==
  {[file_version |-> 1, ticks |-> TICKS_SMALL, is_encrypted |-> 0]}
    \cup {[file_version |-> 3, ticks |-> t, is_encrypted |-> 0] :
            t \in {TICKS_SMALL, TICKS_2020, TICKS_EARLY}}
    \cup {[file_version |-> 6, ticks |-> TICKS_SMALL, is_encrypted |-> f] : f \in {0, 1, 2}}

KeyedMeta == [file_version |-> 6, ticks |-> TICKS_SMALL, is_encrypted |-> 1]

Digit(n) == <<48 + n>>

\* decimal digits of n < 100
Decimal(n) == IF n < 10 THEN Digit(n) ELSE Digit(n \div 10) \o Digit(n % 10)

\* "Athena"
LEVEL_NAME == <<65, 116, 104, 101, 110, 97>>

\* h = [engine, major, minor, label]: label FALSE writes a branch without the pattern
enc_header(h) ==
  LET branch == IF h.label THEN BRANCH_PREFIX \o Decimal(h.major) \o <<46>> \o Decimal(h.minor)
                ELSE <<43, 43, 77, 97, 105, 110>>
      payload == enc_32(754295101) \o enc_32(14) \o enc_32(1192239) \o enc_32(h.engine)
                   \o enc_32(0) \o [i \in 1..16 |-> 16 * i - 1] \o enc_32(0) \o enc_u16(3)
                   \o enc_32(7095426) \o enc_string(branch)
                   \o enc_32(1) \o enc_string(LEVEL_NAME) \o enc_32(0)
                   \o enc_32(1) \o enc_32(0)
  IN  enc_chunk(0, Len(payload), payload)

Engines == {10, 11}

Majors == {3, 4, 5, 9}

Minors == {1, 2, 5, 40}

Headers == [engine : Engines, major : Majors, minor : Minors, label : {TRUE}]

RichHeader == [engine |-> 11, major |-> 9, minor |-> 40, label |-> TRUE]

BadHeader == [engine |-> 11, major |-> 9, minor |-> 40, label |-> FALSE]

\* the layout the format documents for a header
documented_layout(h) ==
  IF h.engine >= 11 /\ h.major >= 9 THEN [skip |-> 85, rich |-> TRUE]
  ELSE IF h.major <= 4 /\ h.minor < 2 THEN [skip |-> 12, rich |-> FALSE]
  ELSE IF h.major = 4 /\ h.minor <= 2 THEN [skip |-> 40, rich |-> FALSE]
  ELSE [skip |-> 45, rich |-> FALSE]

ELIMINATED_ID == [i \in 1..16 |-> i]

ELIMINATOR_ID == [i \in 1..16 |-> 160 + i]

\* "0102030405060708090a0b0c0d0e0f10"
ELIMINATED_HEX ==
  <<48, 49, 48, 50, 48, 51, 48, 52, 48, 53, 48, 54, 48, 55, 48, 56,
    48, 57, 48, 97, 48, 98, 48, 99, 48, 100, 48, 101, 48, 102, 49, 48>>

\* "a1a2a3a4a5a6a7a8a9aaabacadaeafb0"
ELIMINATOR_HEX ==
  <<97, 49, 97, 50, 97, 51, 97, 52, 97, 53, 97, 54, 97, 55, 97, 56,
    97, 57, 97, 97, 97, 98, 97, 99, 97, 100, 97, 101, 97, 102, 98, 48>>

\* 0xAB
GUN_TYPE == 10 * 16 + 11

\* "AB"
GUN_HEX == <<65, 66>>

\* fills the last block with bytes that give their own number (PKCS#7), or zeros
pad_block(plain, zeros) ==
  LET n == BLOCK_LEN - (Len(plain) % BLOCK_LEN)
  IN  IF zeros THEN plain \o Rep(0, n % BLOCK_LEN) ELSE plain \o Rep(n, n)

\* the plaintext of an elimination for header h
elimination_plain(h, knocked) ==
  LET layout == documented_layout(h)
  IN  Rep(0, layout.skip)
        \o (IF layout.rich
              THEN <<17, 0>> \o ELIMINATED_ID \o <<17, 0>> \o ELIMINATOR_ID
              ELSE enc_string(ELIMINATED_HEX) \o enc_string(ELIMINATOR_HEX))
        \o <<GUN_TYPE>> \o enc_32(knocked)

TEAM_STATS_PLAIN == enc_32(0) \o enc_32(3) \o enc_32(97)

MATCH_STATS_PLAIN ==
  enc_32(0) \o <<0, 0, 0, 63>> \o Flatten([i \in 1..10 |-> enc_32(10 * i)])

\* "evt"
EVENT_ID == <<101, 118, 116>>

\* the fields of an event chunk around a ciphertext
enc_event_fields(group, metadata, start_time, length, cipher) ==
  enc_string(EVENT_ID) \o enc_string(group) \o enc_string(metadata)
    \o enc_32(start_time) \o enc_32(0) \o enc_32(length) \o cipher

\* an event chunk whose size word is `slack` more than its payload
enc_event(group, metadata, start_time, plain, zeros, slack) ==
  LET cipher == ecb_encrypt(TEST_KEY, pad_block(plain, zeros))
      payload == enc_event_fields(group, metadata, start_time, Len(cipher), cipher)
  IN  enc_chunk(3, Len(payload) + slack, payload) \o Rep(9, IF slack > 0 THEN slack ELSE 0)

\* a block that reads, as chunk words, as an empty chunk of type 7 with 8 bytes
SKIP_BLOCK == enc_32(7) \o enc_32(8) \o Rep(9, 8)

\* an elimination whose size word stops 16 bytes short, at a last block of
\* ciphertext that reads as SKIP_BLOCK
enc_short_event(h, start_time) ==
  LET cipher == ecb_encrypt(TEST_KEY, pad_block(elimination_plain(h, 1), FALSE))
                  \o SKIP_BLOCK
      payload == enc_event_fields(PLAYER_ELIM, <<>>, start_time, Len(cipher), cipher)
  IN  enc_chunk(3, Len(payload) - BLOCK_LEN, payload)

TailKinds ==
  {"elim", "elim_knocked", "elim_spare", "elim_short", "elim_zero_padded",
   "match_stats", "team_stats", "key_event", "other_event", "cut_event",
   "data", "unknown", "back", "far_back", "cut_words"}

\* the chunk (or chunks) of a kind, for header h, as the i-th of the tail
enc_tail(kind, h, i) ==
  CASE kind = "elim" -> enc_event(PLAYER_ELIM, <<>>, 1000 * i, elimination_plain(h, 0), FALSE, 0)
    [] kind = "elim_knocked" ->
         enc_event(PLAYER_ELIM, ATHENA_MATCH_STATS, 1500 * i, elimination_plain(h, 1), FALSE, 0)
    [] kind = "elim_spare" -> enc_event(PLAYER_ELIM, <<>>, 2000 * i, elimination_plain(h, 1), FALSE, 8)
    [] kind = "elim_short" -> enc_short_event(h, 3000 * i)
    [] kind = "elim_zero_padded" ->
         enc_event(PLAYER_ELIM, <<>>, 4000 * i, elimination_plain(h, 1), TRUE, 0)
    [] kind = "match_stats" -> enc_event(<<>>, ATHENA_MATCH_STATS, 5000 * i, MATCH_STATS_PLAIN, FALSE, 0)
    [] kind = "team_stats" ->
         enc_event(<<>>, ATHENA_MATCH_TEAM_STATS, 6000 * i, TEAM_STATS_PLAIN \o enc_32(i), FALSE, 0)
    [] kind = "key_event" ->
         enc_event(<<>>, PLAYER_STATE_ENCRYPTION_KEY, 7000 * i, TEST_KEY, FALSE, 0)
    [] kind = "other_event" -> enc_event(EVENT_ID, EVENT_ID, 8000 * i, TEST_KEY, FALSE, 0)
    [] kind = "cut_event" ->
         enc_chunk(3, 32, enc_event_fields(PLAYER_ELIM, <<>>, 9000 * i, 2147483647, Rep(9, 4)))
    [] kind = "data" -> enc_chunk(1, 4, Rep(9, 4))
    [] kind = "unknown" -> enc_chunk(7, 0, <<>>)
    [] kind = "back" -> enc_chunk(0, 0, <<>>) \o enc_chunk(2, -16, <<>>)
    [] kind = "far_back" -> enc_chunk(2, I32_MIN, <<>>)
    [] kind = "cut_words" -> Rep(9, 4)

enc_tails(kinds, h) == Flatten([i \in 1..Len(kinds) |-> enc_tail(kinds[i], h, i)])

\* what stands between the metadata and the header chunk
Prefixes == {"none", "data8", "data4", "decoy", "cut_words"}

enc_prefix(kind) ==
  CASE kind = "none" -> <<>>
    [] kind = "data8" -> enc_chunk(1, 8, Rep(9, 8))
    [] kind = "data4" -> enc_chunk(1, 4, Rep(9, 4))
    [] kind = "decoy" -> enc_chunk(1, 8, enc_32(0) \o enc_32(0))
    [] kind = "cut_words" -> Rep(9, 4)

\* every meta, with and without a header, before each kind of event
MetaFiles ==
  {enc_meta(m) \o hd \o enc_tails(t, RichHeader) :
     m \in Metas, hd \in {<<>>, enc_header(RichHeader)},
     t \in {<<>>, <<"elim">>, <<"match_stats">>, <<"team_stats">>,
            <<"key_event">>, <<"other_event">>, <<"cut_event">>}}

\* every header before an elimination written for it
LayoutFiles ==
  {enc_meta(KeyedMeta) \o enc_header(h) \o enc_tails(<<"elim_knocked">>, h) : h \in Headers}

\* what the first loop meets: prefixes, with a header, a bad one or none
HeaderFiles ==
  {enc_meta(KeyedMeta) \o enc_prefix(p) \o hd \o enc_tails(t, RichHeader) :
     p \in Prefixes,
     hd \in {<<>>, enc_header(RichHeader), enc_header(BadHeader)},
     t \in {<<>>, <<"data">>, <<"unknown">>}}

\* what the second loop meets: every tail of up to MaxTail kinds
TailFiles ==
  {enc_meta(KeyedMeta) \o enc_header(RichHeader) \o enc_tails(t, RichHeader) :
     t \in SeqsUpTo(TailKinds, MaxTail)}

Files == MetaFiles \cup LayoutFiles \cup HeaderFiles \cup TailFiles

\* Parser::new: the file in the buffer, nothing parsed yet
Init ==
  /\ buffer \in Files
  /\ offset = 0
  /\ encryption_key = None
  /\ meta = None
  /\ header = None
  /\ match_stats = None
  /\ team_match_stats = None
  /\ eliminations = <<>>
  /\ pc = "parse_meta"
  /\ err = NoErr
  /\ overflow_checks \in BOOLEAN
  /\ last = [op |-> "new"]

Spec == Init /\ [][Next]_vars

\* files with no event chunk: a header, then chunks the dispatch loop steps over
ScanKinds == {"data", "unknown", "back", "far_back", "cut_words"}

ScanFiles ==
  {enc_meta(KeyedMeta) \o enc_header(RichHeader) \o enc_tails(t, RichHeader) :
     t \in SeqsUpTo(ScanKinds, MaxTail)}

ScanInit == Init /\ buffer \in ScanFiles

\* the run is sequential: a turn of the dispatch loop that can be taken is
\* taken, and the loop is left when its condition fails
FairSpec == ScanInit /\ [][Next]_vars /\ WF_vars(Dispatch) /\ WF_vars(Finish)

Terminal == pc \in {"done", "failed"}

TypeOK ==
  /\ offset \in Int
  /\ pc \in {"parse_meta", "find_header", "dispatch", "done", "failed", "reader"}
  /\ Len(eliminations) <= MaxTail + 1

(***************************************************************************)
(* The Reader on its own: a cursor over a buffer, with any of its reads    *)
(* called at any offset.                                                   *)
(***************************************************************************)
MaxBytes == 9

MaxChars == 2

MaxSkip == 3

\* a string written as its byte count plus one, its bytes and a null byte
encode_string(s) == enc_32(Len(s) + 1) \o s \o <<0>>

\* the same in UTF-16: minus the count of units with the null, the units, a null unit
encode_wide(units) ==
  enc_32(0 - (Len(units) + 1)) \o Flatten([i \in 1..Len(units) |-> enc_u16(units[i])])
    \o <<0, 0>>

\* "A", "z" and their pairs
AsciiStrings == SeqsUpTo({65, 122}, MaxChars)

\* "Hé", U+1F600 as its surrogate pair, and a high surrogate on its own
WideStrings == {<<72, 233>>, <<55357, 56832>>, <<55357>>}

StringBuffers ==
  {encode_string(s) \o <<33>> : s \in AsciiStrings}
    \cup {encode_wide(u) \o <<33>> : u \in WideStrings}
    \cup {enc_32(I32_MIN) \o Rep(0, 4),   \* the length -2^31
          enc_32(0) \o <<65>>,            \* the empty string as the length 0
          enc_32(2) \o <<255, 0>>,        \* bytes that are not UTF-8
          enc_32(2) \o <<65, 66>>,        \* no null byte at the end
          enc_32(5) \o <<65>>,            \* a length past the end
          enc_32(0 - 3) \o <<65, 0>>}     \* units past the end

ByteRuns == {[i \in 1..n |-> 16 * i] : n \in 0..MaxBytes}

ReaderBuffers == ByteRuns \cup StringBuffers

\* a Reader over a buffer, the cursor at its start; no Parser takes part
ReaderInit ==
  /\ buffer \in ReaderBuffers
  /\ offset = 0
  /\ encryption_key = None
  /\ meta = None
  /\ header = None
  /\ match_stats = None
  /\ team_match_stats = None
  /\ eliminations = <<>>
  /\ pc = "reader"
  /\ err = NoErr
  /\ overflow_checks \in BOOLEAN
  /\ last = [op |-> "new"]

reader_frame ==
  <<buffer, encryption_key, meta, header, match_stats, team_match_stats,
    eliminations, overflow_checks>>

\* a read called on the Reader: the cursor moves, or the call panics; `last`
\* keeps the call, the offset it was made at and what it returned
Called(name, r) ==
  /\ pc = "reader"
  /\ IF r.ok
       THEN offset' = r.off /\ UNCHANGED <<pc, err>>
       ELSE pc' = "failed" /\ err' = r.err /\ UNCHANGED offset
  /\ last' = [op |-> name, offset |-> offset, v |-> r.v]
  /\ UNCHANGED reader_frame

ReadU16 == Called("read_u16", read_u16(buffer, offset))

ReadU32 == Called("read_u32", read_u32(buffer, offset))

ReadU64 == Called("read_u64", read_u64(buffer, offset))

ReadI16 == Called("read_i16", read_i16(buffer, offset))

ReadI32 == Called("read_i32", read_i32(buffer, offset))

ReadI64 == Called("read_i64", read_i64(buffer, offset))

ReadF32 == Called("read_f32", read_f32(buffer, offset))

ReadByte == Called("read_byte", read_byte(buffer, offset))

ReadBool == Called("read_bool", read_bool(buffer, offset))

ReadString == Called("read_string", read_string(buffer, offset, overflow_checks))

\* Reader::skip, by up to MaxSkip bytes and to no further than one past the end
Skip ==
  /\ pc = "reader"
  /\ \E byte_count \in 1..MaxSkip :
       /\ skip(offset, byte_count) <= Len(buffer) + 1
       /\ offset' = skip(offset, byte_count)
       /\ last' = [op |-> "skip", offset |-> offset, v |-> <<>>]
  /\ UNCHANGED <<pc, err>>
  /\ UNCHANGED reader_frame

ReaderNext ==
  \/ ReadU16 \/ ReadU32 \/ ReadU64 \/ ReadI16 \/ ReadI32 \/ ReadI64 \/ ReadF32
  \/ ReadByte \/ ReadBool \/ ReadString \/ Skip

SpecReader == ReaderInit /\ [][ReaderNext]_vars

(***************************************************************************)
(* Properties                                                              *)
(***************************************************************************)
\* the turn of the dispatch loop just taken read its chunk words
DispatchedChunk == last.op = "dispatch" /\ last.words

\* C1: after a turn of the dispatch loop that returned, for a chunk of any
\* type and whatever its handler consumed, the cursor is payload start plus
\* declared size modulo 2^64: in the signed writing of a usize, their sum.
C1_ChunkSkip ==
  (DispatchedChunk /\ pc = "dispatch") =>
    offset = last.start_offset + last.chunk_size

\* an elimination whose handler read past the end its size word declares
C1_HandlerOverran ==
  /\ DispatchedChunk /\ pc = "dispatch"
  /\ last.kind = "elimination" /\ last.handled
  /\ last.handler_end > last.start_offset + last.chunk_size

\* C1 as written: the cursor, a number of bytes from the start of the
\* buffer, is exactly payload start plus declared size.
C1_ExactSum ==
  (DispatchedChunk /\ pc = "dispatch") =>
    (offset >= 0 /\ offset = last.start_offset + last.chunk_size)

Human(id) == [name |-> <<>>, id |-> id, is_bot |-> FALSE]

\* the record the elimination chunk of kind "elim" stands for, as the i-th chunk
ExpectedElimination(knocked, timestamp) ==
  [eliminated |-> Human(ELIMINATED_HEX), eliminator |-> Human(ELIMINATOR_HEX),
   gun_type |-> GUN_HEX, is_knocked |-> knocked, timestamp |-> timestamp]

FileVersion1 == [file_version |-> 1, ticks |-> TICKS_SMALL, is_encrypted |-> 0]

\* metadata, the 9.40 header of engine network version 11, one playerElim event
EndToEndFile(m) == enc_meta(m) \o enc_header(RichHeader) \o enc_tails(<<"elim">>, RichHeader)

NoKeyCaptured == u32_lt(meta[1].file_version, 6) \/ ~meta[1].is_encrypted

\* a turn of the dispatch loop on an event chunk, taken with no key
KeylessEventStep ==
  /\ pc = "dispatch" /\ encryption_key = None
  /\ last'.op = "dispatch" /\ last'.words /\ last'.chunk_type = 3

C3_Step ==
  KeylessEventStep =>
    /\ pc' = "failed"
    /\ UNCHANGED <<eliminations, match_stats, team_match_stats>>
    /\ IF last'.fields THEN err' = "NoKey"
       ELSE err' \in {"Bounds", "Utf8", "Utf16", "Overflow"}

\* C3: there is no key exactly when the metadata was of a file version below
\* 6 or its encryption flag was not 1; and an event chunk met with no key,
\* whatever its group and metadata tag, fails with the encryption error once
\* its fields and payload are read (and with the error of the read when they
\* cannot be), and adds or replaces no elimination or statistics.
C3_Unconditional ==
  /\ [](meta # None => (encryption_key = None <=> NoKeyCaptured))
  /\ [][C3_Step]_vars

\* an event no handler takes, in a file whose encryption flag was 2
C3_IgnoredEventFailed ==
  /\ DispatchedChunk /\ last.chunk_type = 3 /\ last.fields
  /\ last.kind = "ignored"
  /\ meta[1].file_version = 6
  /\ pc = "failed" /\ err = "NoKey"

\* C3 as written: every event chunk met with no key fails with the
\* encryption error.
C3_AlwaysEncryptionError ==
  (DispatchedChunk /\ last.chunk_type = 3 /\ encryption_key = None) =>
    (pc = "failed" /\ err = "NoKey")

\* the first loop stopped and had met no chunk of type 0
NoHeaderMet ==
  /\ meta # None /\ is_none(header)
  /\ \/ last.op = "check_header"
     \/ last.op = "find_header" /\ ~last.words

\* C4: when the first loop leaves with no header, the decode fails with the
\* header-missing error; when one of its steps finds fewer than the 8 bytes
\* of the chunk words, it fails with a bounds error; either way the header
\* stays unset, and the dispatch loop is never entered without a header.
C4_HeaderMissing ==
  /\ (last.op = "check_header" /\ is_none(header)) =>
       (pc = "failed" /\ err = "HeaderMissing")
  /\ (last.op = "find_header" /\ ~last.words) =>
       (pc = "failed" /\ err = "Bounds" /\ is_none(header))
  /\ pc \in {"dispatch", "done"} => ~is_none(header)

\* chunks of other types were stepped over, then the buffer ended
C4_ScannedToEnd ==
  /\ last.op = "check_header" /\ is_none(header)
  /\ pc = "failed" /\ err = "HeaderMissing"
  /\ offset = Len(buffer) /\ offset > Len(enc_meta(KeyedMeta))

\* C4 as written: a scan that meets no chunk of type 0 fails with the
\* header-missing error.
C4_AlwaysHeaderMissing ==
  (NoHeaderMet /\ Terminal) => (pc = "failed" /\ err = "HeaderMissing")

\* C5: whatever the declared sizes of the chunks, a decode that has entered
\* the dispatch loop reaches a terminal state, completed or failed.
C5_Terminates == (pc = "dispatch") ~> Terminal

C6_Matrix(e, M, m) ==
  IF u32_ge(e, 11) /\ M >= 9 THEN [skip |-> 85, rich |-> TRUE]
  ELSE IF M <= 4 /\ m < 2 THEN [skip |-> 12, rich |-> FALSE]
  ELSE IF M = 4 /\ m <= 2 THEN [skip |-> 40, rich |-> FALSE]
  ELSE [skip |-> 45, rich |-> FALSE]

\* the five headers named one by one, each with its layout
C6_Named(h, layout) ==
  /\ (h.engine_network_version = 11 /\ h.version.major = 9) => layout = [skip |-> 85, rich |-> TRUE]
  /\ (h.engine_network_version = 10 /\ h.version.major = 9) => layout.skip = 45
  /\ (h.version.major = 4 /\ h.version.minor = 1) => layout.skip = 12
  /\ (h.version.major = 4 /\ h.version.minor = 2) => layout.skip = 40
  /\ (h.version.major = 3 /\ h.version.minor = 5) => layout.skip = 45

C6_Chosen(h) ==
  elimination_layout(h.engine_network_version, h.version.major, h.version.minor)

\* C6: for every header, parse_elimination takes the layout of the matrix
\* (85 bytes and rich players exactly when e >= 11 and M >= 9, else 12, 40 or
\* 45 bytes and plain string ids), and an elimination written in that layout
\* decodes to its two players, with empty names and bot flags false.
C6_LayoutSelection ==
  (DispatchedChunk /\ last.kind = "elimination") =>
    /\ C6_Chosen(header[1])
         = C6_Matrix(header[1].engine_network_version, header[1].version.major,
                     header[1].version.minor)
    /\ C6_Named(header[1], C6_Chosen(header[1]))
    /\ buffer \in LayoutFiles =>
         /\ last.handled
         /\ eliminations = <<ExpectedElimination(TRUE, 1500)>>

\* the 45-byte layout of engine network version 10 under major 9
C6_PlainUnderMajor9 ==
  /\ DispatchedChunk /\ last.kind = "elimination" /\ last.handled
  /\ buffer \in LayoutFiles
  /\ header[1].engine_network_version = 10 /\ header[1].version.major = 9
  /\ Len(eliminations) = 1

C7_Step ==
  IF last'.op = "dispatch" /\ last'.words /\ last'.kind = "elimination" /\ last'.handled
    THEN /\ Len(eliminations') = Len(eliminations) + 1
         /\ SubSeq(eliminations', 1, Len(eliminations)) = eliminations
         /\ eliminations'[Len(eliminations')].timestamp = last'.start_time
    ELSE eliminations' = eliminations

\* C7: every step leaves the elimination list as it was, but for the step of
\* a playerElim event chunk decoded with success, which appends one record
\* at its end, with the chunk's start time as its timestamp.
C7_AppendOnly == [][C7_Step]_vars

\* a second elimination, after a first one
C7_TwoEliminations ==
  /\ Len(eliminations) = 2
  /\ eliminations[1].timestamp < eliminations[2].timestamp
  /\ last.op = "dispatch" /\ last.kind = "elimination"

FixedWidth(op) ==
  CASE op \in {"read_u16", "read_i16"} -> 2
    [] op \in {"read_u32", "read_i32", "read_f32"} -> 4
    [] op \in {"read_u64", "read_i64"} -> 8

FixedReads ==
  {"read_u16", "read_u32", "read_u64", "read_i16", "read_i32", "read_i64", "read_f32"}

\* C8: a fixed-width read with at least its width of bytes left returns and
\* moves the cursor on by the width; it fails, with a bounds error, only when
\* fewer bytes are left.
C8_FixedWidth ==
  last.op \in FixedReads =>
    IF Len(buffer) - last.offset >= FixedWidth(last.op)
      THEN pc # "failed" /\ offset = last.offset + FixedWidth(last.op)
      ELSE pc = "failed" /\ err = "Bounds"

\* the quotient (ticks - 621355968000000000) / 100000 as 64 bits
C9_Quotient(ticks) == div_u64(sub_u64(ticks, EPOCH_TICKS).v, TICKS_DIVISOR)

\* the stored timestamp is the number the 64 bits q give
C9_Stored(timestamp, ticks, q) ==
  /\ ~sub_u64(ticks, EPOCH_TICKS).overflow
  /\ SubSeq(q, 5, 8) = <<0, 0, 0, 0>>
  /\ q[4] < 128
  /\ timestamp = Some(i32_of(as_u32(q)))

\* C9: for a file version of 3 or more the capture timestamp is the quotient
\* itself, for every tick count; below 3 it is absent.
C9_CaptureTimestamp ==
  last.op = "parse_meta" =>
    /\ pc # "failed"
    /\ IF u32_ge(meta[1].file_version, 3)
         THEN /\ last.ticks # None
              /\ C9_Stored(meta[1].timestamp, last.ticks[1], C9_Quotient(last.ticks[1]))
         ELSE meta[1].timestamp = None

\* the length word read_string read
C10_Length == i32_of(SubSeq(buffer, last.offset + 1, last.offset + 4))

\* the units of a string of -L units, without the last
C10_Units(L) ==
  [i \in 1..(0 - L - 1) |->
     u16_of(SubSeq(buffer, last.offset + 4 + 2 * i - 1, last.offset + 4 + 2 * i))]

\* what a read_string that returned did, by the length L it read
C10_ByLength(L, advance) ==
  IF L = 0 THEN advance = 4 /\ last.v = <<>>
  ELSE IF L > 0
    THEN /\ advance = 4 + L
         /\ last.v = SubSeq(buffer, last.offset + 5, last.offset + 4 + L - 1)
  ELSE /\ advance >= 4 /\ (advance - 4) % 2 = 0
       /\ L = 0 - ((advance - 4) \div 2)
       /\ last.v = from_utf16(C10_Units(L), 1).v

\* C10: a read_string that returned took 4 bytes for L = 0 and gave the empty
\* string, took 4 + L bytes for L > 0 and gave the first L - 1 of them, took
\* 4 + 2 * (-L) bytes for every L < 0 and gave the first -L - 1 units; and a
\* string written as its byte count plus one, its bytes and a null byte reads
\* back as itself.
C10_ReadString ==
  /\ (last.op = "read_string" /\ pc # "failed") =>
       C10_ByLength(C10_Length, offset - last.offset)
  /\ \A s \in AsciiStrings :
       (last.op = "read_string" /\ last.offset = 0 /\ buffer = encode_string(s) \o <<33>>) =>
         (pc # "failed" /\ last.v = s)

====
